---- MODULE Spec2Model ----
(***************************************************************************)
(* LearningHub: progress aggregation, certificate issuance, quiz scoring   *)
(* and assignment grading, modelled from the handlers.                     *)
(*                                                                         *)
(* The relational store is the committed tables (lessonProgress,           *)
(* enrollments, certificates, quizAttempts, quizAnswers, submissions).     *)
(* Each HTTP request is served by one worker; a handler is a sequence of   *)
(* steps, one per database round trip, so that handlers of different       *)
(* workers interleave between their statements.  Statements run through a  *)
(* gorm transaction (tx) are buffered in the worker and applied at Commit; *)
(* statements run through the handler's pool (h.DB / h.db) read and write  *)
(* committed rows only (PostgreSQL, READ COMMITTED).                       *)
(***************************************************************************)
EXTENDS Integers, Sequences, FiniteSets, TLC

VARIABLES
    now,             \* time.Now(): a logical clock; it ticks when a request is
                     \* answered 200, so requests served one after the other
                     \* read different times
    lessonProgress,  \* table lesson_progresses: sequence of rows, ID = index
    enrollments,     \* table enrollments: <<user id, course id>> -> row
    certificates,    \* table certificates: set of rows
    quizAttempts,    \* table quiz_attempts: sequence of rows, ID = index
    quizAnswers,     \* table quiz_answers: sequence of rows, ID = index
    submissions,     \* table assignment_submissions: sequence of rows, ID = index
    proc,            \* per worker: the running handler, its position and locals
    resp             \* per worker: the last HTTP response it sent

vars == <<now, lessonProgress, enrollments, certificates, quizAttempts, quizAnswers,
          submissions, proc, resp>>

(***************************************************************************)
(* Bounds of the model.                                                    *)
(***************************************************************************)
NLessons == 2        \* lessons of course 1 (ids 1..NLessons)
MaxClock == 6        \* once the clock shows MaxClock no request is admitted,
                     \* but for the certificate requests that the pre-checks
                     \* of GenerateCertificate turn away
MaxRaceClock == 4    \* the same, in the larger specifications: where the
                     \* requests of two workers interleave, three handlers
                     \* write lesson progress or three quizzes are taken

Workers == {1, 2}

\* User 1 is a student enrolled in course 1 and in no other course; user 2
\* is an authenticated user with no enrollment.  Course 2 has one lesson,
\* id NLessons + 1.
Users == {1, 2}
Students == {1}
Courses == {1, 2}
Enrolled == {<<1, 1>>}
Lessons == 1..(NLessons + 1)
TimeDeltas == {1}            \* request.TimeSpent (binding:"required": not 0)
VerificationCodes == {"LHC-1"}

\* lessons JOIN modules: the course a lesson belongs to
LessonCourse(l) == IF l <= NLessons THEN 1 ELSE 2

\* A nullable column (*time.Time, *string) is << >> (NULL) or <<v>>.
Null == << >>
Some(v) == <<v>>

(***************************************************************************)
(* float64 percentages are kept exact, as a fraction num/den with den > 0. *)
(***************************************************************************)
Frac(n, d) == [num |-> n, den |-> d]
FracZero == Frac(0, 1)
FracEq(p, q) == p.num * q.den = q.num * p.den
\* a faulty variant of FracGE: the strict comparison (C6)
FracGT(p, k) == IF p.den = 0 THEN p.num > 0 ELSE p.num > k * p.den

\* p >= k in float64; den = 0 is the result of a division by zero: +Inf when
\* num > 0, NaN (every comparison false) when num = 0
FracGE(p, k) == IF p.den = 0 THEN p.num > 0 ELSE p.num >= k * p.den

RECURSIVE SumSeq(_)
SumSeq(s) == IF s = << >> THEN 0 ELSE Head(s) + SumSeq(Tail(s))

(***************************************************************************)
(* ProgressHandler.calculateDetailedProgress: three queries run through    *)
(* h.DB, i.e. against the committed rows `rows`.                           *)
(***************************************************************************)
CountTotalLessons(courseID) == Cardinality({l \in Lessons : LessonCourse(l) = courseID})

CourseRows(rows, courseID, userID) ==
    {i \in DOMAIN rows : /\ rows[i].UserID = userID
                         /\ LessonCourse(rows[i].LessonID) = courseID}

CompletedRows(rows, courseID, userID) ==
    {i \in CourseRows(rows, courseID, userID) : rows[i].Completed}

SumTimeSpent(rows, courseID, userID) ==
    SumSeq([i \in DOMAIN rows |->
              IF i \in CourseRows(rows, courseID, userID) THEN rows[i].TimeSpent ELSE 0])

calculateDetailedProgress(rows, courseID, userID) ==
    LET totalLessons == CountTotalLessons(courseID)
        completedLessons == Cardinality(CompletedRows(rows, courseID, userID))
    IN  [ progress_percentage |->
              IF totalLessons > 0 THEN Frac(completedLessons * 100, totalLessons)
                                  ELSE FracZero,
          completed_lessons |-> completedLessons,
          total_lessons |-> totalLessons,
          time_spent_minutes |-> SumTimeSpent(rows, courseID, userID) ]

(***************************************************************************)
(* ProgressHandler.updateEnrollmentProgress, past the enrollment lookup:   *)
(* the row it hands to tx.Save.  `enrollment` is the row read through tx,  *)
(* `rows` the lesson-progress rows h.DB sees, `t` the clock.               *)
(***************************************************************************)
\* a faulty variant of StampCompletedAt: no test for nil (C9)
StampCompletedAtAlways(enrollment, progress, t) ==
    IF FracGE(progress, 100) THEN Some(t) ELSE enrollment.CompletedAt

StampCompletedAt(enrollment, progress, t) ==
    IF FracGE(progress, 100) /\ enrollment.CompletedAt = Null
    THEN Some(t)
    ELSE enrollment.CompletedAt

\* a faulty variant of updateEnrollmentProgress: the time spent is added to
\* the stored one (C10)
updateEnrollmentProgressAdding(enrollment, rows, userID, courseID, t) ==
    LET progress == calculateDetailedProgress(rows, courseID, userID)
    IN  [enrollment EXCEPT
            !.Progress = progress.progress_percentage,
            !.CompletedLessons = progress.completed_lessons,
            !.TotalLessons = progress.total_lessons,
            !.TimeSpent = @ + progress.time_spent_minutes,
            !.LastActivityAt = t,
            !.CompletedAt = StampCompletedAt(enrollment, progress.progress_percentage, t)]

updateEnrollmentProgress(enrollment, rows, userID, courseID, t) ==
    LET progress == calculateDetailedProgress(rows, courseID, userID)
    IN  [enrollment EXCEPT
            !.Progress = progress.progress_percentage,
            !.CompletedLessons = progress.completed_lessons,
            !.TotalLessons = progress.total_lessons,
            !.TimeSpent = progress.time_spent_minutes,
            !.LastActivityAt = t,
            !.CompletedAt = StampCompletedAt(enrollment, progress.progress_percentage, t)]

(***************************************************************************)
(* Initial state: user 1 has just enrolled in course 1 (models.Enrollment  *)
(* column defaults), no progress rows, no certificates, workers idle.      *)
(***************************************************************************)
NewEnrollment(userID, courseID) ==
    [ ID |-> <<userID, courseID>>, UserID |-> userID, CourseID |-> courseID,
      Progress |-> FracZero, TotalLessons |-> 0, CompletedLessons |-> 0,
      TimeSpent |-> 0, CertificateID |-> Null, CompletedAt |-> Null,
      CertificateIssuedAt |-> Null, LastActivityAt |-> 0 ]

Idle == [pc |-> "idle"]
NoResponse == [op |-> "none"]

Init ==
    /\ now = 1
    /\ lessonProgress = << >>
    /\ enrollments = [e \in Enrolled |-> NewEnrollment(e[1], e[2])]
    /\ certificates = {}
    /\ quizAttempts = << >>
    /\ quizAnswers = << >>
    /\ submissions = << >>
    /\ proc = [w \in Workers |-> Idle]
    /\ resp = [w \in Workers |-> NoResponse]

(***************************************************************************)
(* ProgressHandler.UpdateLessonProgress (PUT /progress/lesson).            *)
(***************************************************************************)
ProgressResponse(request, status, error) ==
    [ op |-> "UpdateLessonProgress", status |-> status, error |-> error,
      UserID |-> request.UserID, LessonID |-> request.LessonID,
      CourseID |-> request.CourseID, Completed |-> request.Completed ]

\* tx.Where("user_id = ? AND lesson_id = ?").First: the row with the least
\* ID, 0 for gorm.ErrRecordNotFound
FirstLessonProgress(rows, userID, lessonID) ==
    LET matching == {i \in DOMAIN rows :
                        rows[i].UserID = userID /\ rows[i].LessonID = lessonID}
    IN  IF matching = {} THEN 0
        ELSE CHOOSE i \in matching : \A j \in matching : i <= j

\* rows of lesson_progresses another worker's open transaction has updated
\* and so holds the row lock of
LockedLessonProgress(w) ==
    {proc[v].found : v \in {u \in Workers \ {w} :
                              proc[u].pc \in {"ulp_enrollment", "ulp_commit"}}} \ {0}

\* the request is bound, the transaction begun and the lesson-progress row
\* looked up
UpdateLessonProgress_Begin(w, userID, lessonID, courseID, timeSpent, completed) ==
    /\ proc[w] = Idle
    /\ now < MaxClock
    /\ LET found == FirstLessonProgress(lessonProgress, userID, lessonID)
       IN  proc' = [proc EXCEPT ![w] =
                [ pc |-> "ulp_lesson", UserID |-> userID,
                  LessonID |-> lessonID, CourseID |-> courseID,
                  TimeSpent |-> timeSpent, Completed |-> completed,
                  found |-> found,
                  lessonProgress |-> IF found = 0 THEN Null
                                     ELSE Some(lessonProgress[found]) ]]
    /\ resp' = [resp EXCEPT ![w] = NoResponse]
    /\ UNCHANGED <<now, lessonProgress, enrollments, certificates, quizAttempts, quizAnswers, submissions>>

\* the row handed to tx.Create
NewLessonProgress(request, t) ==
    [ UserID |-> request.UserID,
      LessonID |-> request.LessonID, CourseID |-> request.CourseID,
      Completed |-> request.Completed,
      CompletedAt |-> IF request.Completed THEN Some(t) ELSE Null,
      TimeSpent |-> request.TimeSpent ]

\* the row handed to tx.Save
UpdatedLessonProgress(row, request, t) ==
    [row EXCEPT
        !.CompletedAt = IF request.Completed /\ ~row.Completed THEN Some(t) ELSE @,
        !.Completed = request.Completed,
        !.TimeSpent = @ + request.TimeSpent]

\* tx.Create / tx.Save of the lesson-progress row: buffered in tx
UpdateLessonProgress_Lesson(w) ==
    /\ proc[w].pc = "ulp_lesson"
    /\ proc[w].found \notin LockedLessonProgress(w)
    /\ proc' = [proc EXCEPT ![w] =
            [@ EXCEPT !.pc = "ulp_enrollment",
                      !.lessonProgress =
                          IF proc[w].found = 0
                          THEN Some(NewLessonProgress(proc[w], now))
                          ELSE Some(UpdatedLessonProgress(@[1], proc[w], now))]]
    /\ UNCHANGED <<now, lessonProgress, enrollments, certificates, resp, quizAttempts, quizAnswers, submissions>>

\* updateEnrollmentProgress: tx.First(&enrollment) and, when found,
\* calculateDetailedProgress through h.DB; not found rolls the transaction back
UpdateLessonProgress_Enrollment(w) ==
    /\ proc[w].pc = "ulp_enrollment"
    /\ IF <<proc[w].UserID, proc[w].CourseID>> \in DOMAIN enrollments
       THEN /\ proc' = [proc EXCEPT ![w] =
                   [ pc |-> "ulp_commit", UserID |-> @.UserID, LessonID |-> @.LessonID,
                     CourseID |-> @.CourseID, TimeSpent |-> @.TimeSpent,
                     Completed |-> @.Completed, found |-> @.found,
                     lessonProgress |-> @.lessonProgress,
                     enrollment |-> updateEnrollmentProgress(
                         enrollments[<<@.UserID, @.CourseID>>], lessonProgress,
                         @.UserID, @.CourseID, now) ]]
            /\ UNCHANGED resp
       ELSE /\ proc' = [proc EXCEPT ![w] = Idle]
            /\ resp' = [resp EXCEPT ![w] =
                   ProgressResponse(proc[w], 500, "Failed to update course progress")]
    /\ UNCHANGED <<now, lessonProgress, enrollments, certificates, quizAttempts, quizAnswers, submissions>>

\* tx.Save(&enrollment) and tx.Commit: both buffered writes reach the tables
UpdateLessonProgress_Commit(w) ==
    /\ proc[w].pc = "ulp_commit"
    /\ lessonProgress' =
           IF proc[w].found = 0
           THEN Append(lessonProgress, proc[w].lessonProgress[1])
           ELSE [lessonProgress EXCEPT ![proc[w].found] = proc[w].lessonProgress[1]]
    /\ enrollments' = [enrollments EXCEPT
           ![<<proc[w].UserID, proc[w].CourseID>>] = proc[w].enrollment]
    /\ proc' = [proc EXCEPT ![w] = Idle]
    /\ resp' = [resp EXCEPT ![w] = ProgressResponse(proc[w], 200, "")]
    /\ now' = now + 1
    /\ UNCHANGED <<certificates, quizAttempts, quizAnswers, submissions>>

UpdateLessonProgress(w, admit) ==
    \/ \E userID \in Students, lessonID \in Lessons, courseID \in Courses,
          timeSpent \in TimeDeltas, completed \in BOOLEAN :
            admit /\ UpdateLessonProgress_Begin(w, userID, lessonID, courseID,
                                                timeSpent, completed)
    \/ UpdateLessonProgress_Lesson(w)
    \/ UpdateLessonProgress_Enrollment(w)
    \/ UpdateLessonProgress_Commit(w)

(***************************************************************************)
(* The other two handlers that write lesson progress.  Neither opens a     *)
(* transaction: every statement is committed when it is run.               *)
(***************************************************************************)
EntryResponse(op, userID, lessonID, status, error) ==
    [ op |-> op, status |-> status, error |-> error,
      UserID |-> userID, LessonID |-> lessonID ]

(***************************************************************************)
(* LessonHandler.UpdateLessonProgress (PUT /lessons/:id/progress): time    *)
(* tracking.                                                               *)
(***************************************************************************)
LessonHandler_UpdateLessonProgress_Begin(w, userID, lessonID, timeSpent) ==
    /\ proc[w] = Idle
    /\ now < MaxClock
    /\ IF <<userID, LessonCourse(lessonID)>> \notin DOMAIN enrollments
       THEN /\ proc' = [proc EXCEPT ![w] = Idle]
            /\ resp' = [resp EXCEPT ![w] =
                   EntryResponse("LessonHandler.UpdateLessonProgress", userID, lessonID,
                                 403, "You are not enrolled in this course")]
       ELSE /\ LET found == FirstLessonProgress(lessonProgress, userID, lessonID)
               IN  proc' = [proc EXCEPT ![w] =
                       [ pc |-> "lh_write", UserID |-> userID, LessonID |-> lessonID,
                         TimeSpent |-> timeSpent, found |-> found,
                         progress |-> IF found = 0 THEN Null
                                      ELSE Some(lessonProgress[found]) ]]
            /\ resp' = [resp EXCEPT ![w] = NoResponse]
    /\ UNCHANGED <<now, lessonProgress, enrollments, certificates, quizAttempts,
                   quizAnswers, submissions>>

\* the row handed to h.db.Create: CompletedAt is the zero time
LessonHandler_NewProgress(userID, lessonID, timeSpent) ==
    [ UserID |-> userID, LessonID |-> lessonID, CourseID |-> LessonCourse(lessonID),
      Completed |-> FALSE, CompletedAt |-> Null, TimeSpent |-> timeSpent ]

\* h.db.Create / h.db.Save of the row read at the lookup
LessonHandler_UpdateLessonProgress_Write(w) ==
    /\ proc[w].pc = "lh_write"
    /\ lessonProgress' =
           IF proc[w].found = 0
           THEN Append(lessonProgress,
                       LessonHandler_NewProgress(proc[w].UserID, proc[w].LessonID,
                                                 proc[w].TimeSpent))
           ELSE [lessonProgress EXCEPT ![proc[w].found] =
                    [proc[w].progress[1] EXCEPT !.TimeSpent = @ + proc[w].TimeSpent]]
    /\ proc' = [proc EXCEPT ![w] = Idle]
    /\ resp' = [resp EXCEPT ![w] =
           EntryResponse("LessonHandler.UpdateLessonProgress", proc[w].UserID,
                         proc[w].LessonID, 200, "")]
    /\ now' = now + 1
    /\ UNCHANGED <<enrollments, certificates, quizAttempts, quizAnswers, submissions>>

LessonHandler_UpdateLessonProgress(w, admit) ==
    \/ \E userID \in Students, lessonID \in Lessons, timeSpent \in TimeDeltas :
            admit /\ LessonHandler_UpdateLessonProgress_Begin(w, userID, lessonID,
                                                              timeSpent)
    \/ LessonHandler_UpdateLessonProgress_Write(w)

(***************************************************************************)
(* CourseHandler.UpdateLessonProgress (PUT /progress/lesson in the other   *)
(* router): marks the lesson completed.                                    *)
(***************************************************************************)
CourseHandler_UpdateLessonProgress_Begin(w, userID, lessonID) ==
    /\ proc[w] = Idle
    /\ now < MaxClock
    /\ IF <<userID, LessonCourse(lessonID)>> \notin DOMAIN enrollments
       THEN /\ proc' = [proc EXCEPT ![w] = Idle]
            /\ resp' = [resp EXCEPT ![w] =
                   EntryResponse("CourseHandler.UpdateLessonProgress", userID, lessonID,
                                 403, "You are not enrolled in this course")]
       ELSE /\ LET found == FirstLessonProgress(lessonProgress, userID, lessonID)
               IN  proc' = [proc EXCEPT ![w] =
                       [ pc |-> "ch_write", UserID |-> userID, LessonID |-> lessonID,
                         enrollment |-> enrollments[<<userID, LessonCourse(lessonID)>>],
                         found |-> found,
                         progress |-> IF found = 0 THEN Null
                                      ELSE Some(lessonProgress[found]) ]]
            /\ resp' = [resp EXCEPT ![w] = NoResponse]
    /\ UNCHANGED <<now, lessonProgress, enrollments, certificates, quizAttempts,
                   quizAnswers, submissions>>

\* the row handed to h.DB.Create
CourseHandler_NewProgress(userID, lessonID, t) ==
    [ UserID |-> userID, LessonID |-> lessonID, CourseID |-> LessonCourse(lessonID),
      Completed |-> TRUE, CompletedAt |-> Some(t), TimeSpent |-> 0 ]

\* the row handed to h.DB.Save
CourseHandler_CompletedProgress(progress, t) ==
    [progress EXCEPT !.Completed = TRUE, !.CompletedAt = Some(t)]

\* h.DB.Create / h.DB.Save of the lesson-progress row
CourseHandler_UpdateLessonProgress_Write(w) ==
    /\ proc[w].pc = "ch_write"
    /\ lessonProgress' =
           IF proc[w].found = 0
           THEN Append(lessonProgress,
                       CourseHandler_NewProgress(proc[w].UserID, proc[w].LessonID, now))
           ELSE [lessonProgress EXCEPT ![proc[w].found] =
                    CourseHandler_CompletedProgress(proc[w].progress[1], now)]
    /\ proc' = [proc EXCEPT ![w] = [@ EXCEPT !.pc = "ch_enrollment"]]
    /\ UNCHANGED <<now, enrollments, certificates, resp, quizAttempts, quizAnswers,
                   submissions>>

\* Where("user_id = ? AND course_id = ? AND completed = ?").Count: by the
\* course_id column of the rows, with no join
CourseHandler_CompletedLessons(userID, courseID) ==
    Cardinality({i \in DOMAIN lessonProgress : /\ lessonProgress[i].UserID = userID
                                               /\ lessonProgress[i].CourseID = courseID
                                               /\ lessonProgress[i].Completed})

\* the two counts and h.DB.Save(&enrollment), the row read at the start of
\* the handler with the new progress
CourseHandler_UpdateLessonProgress_Enrollment(w) ==
    /\ proc[w].pc = "ch_enrollment"
    /\ LET courseID == LessonCourse(proc[w].LessonID)
           totalLessons == CountTotalLessons(courseID)
           completedLessons == CourseHandler_CompletedLessons(proc[w].UserID, courseID)
       IN  enrollments' =
               IF totalLessons > 0
               THEN [enrollments EXCEPT ![<<proc[w].UserID, courseID>>] =
                        [proc[w].enrollment EXCEPT
                            !.Progress = Frac(completedLessons * 100, totalLessons)]]
               ELSE enrollments
    /\ proc' = [proc EXCEPT ![w] = Idle]
    /\ resp' = [resp EXCEPT ![w] =
           EntryResponse("CourseHandler.UpdateLessonProgress", proc[w].UserID,
                         proc[w].LessonID, 200, "")]
    /\ now' = now + 1
    /\ UNCHANGED <<lessonProgress, certificates, quizAttempts, quizAnswers, submissions>>

CourseHandler_UpdateLessonProgress(w, admit) ==
    \/ \E userID \in Students, lessonID \in Lessons :
            admit /\ CourseHandler_UpdateLessonProgress_Begin(w, userID, lessonID)
    \/ CourseHandler_UpdateLessonProgress_Write(w)
    \/ CourseHandler_UpdateLessonProgress_Enrollment(w)

(***************************************************************************)
(* ProgressHandler.GenerateCertificate (POST /courses/:id/certificate).    *)
(* Every statement runs through h.DB: there is no transaction.             *)
(***************************************************************************)
IssueResponse(userID, courseID, status, error) ==
    [op |-> "GenerateCertificate", status |-> status, error |-> error,
     UserID |-> userID, CourseID |-> courseID]

\* a faulty variant of GenerateCertificate_Check: no progress check (C7)
GenerateCertificate_CheckNoProgress(userID, courseID) ==
    IF <<userID, courseID>> \notin DOMAIN enrollments
    THEN IssueResponse(userID, courseID, 404, "Enrollment not found")
    ELSE IF enrollments[<<userID, courseID>>].CertificateID # Null
    THEN IssueResponse(userID, courseID, 400, "Certificate already issued")
    ELSE NoResponse

\* a faulty variant of GenerateCertificate_Check: no already-issued check (C8)
GenerateCertificate_CheckNoGuard(userID, courseID) ==
    IF <<userID, courseID>> \notin DOMAIN enrollments
    THEN IssueResponse(userID, courseID, 404, "Enrollment not found")
    ELSE IF ~FracGE(enrollments[<<userID, courseID>>].Progress, 100)
    THEN IssueResponse(userID, courseID, 400, "Course not completed")
    ELSE NoResponse

\* the pre-checks on the enrollment row read at the start of the handler:
\* the response that ends the handler, or NoResponse to go on
GenerateCertificate_Check(userID, courseID) ==
    IF <<userID, courseID>> \notin DOMAIN enrollments
    THEN IssueResponse(userID, courseID, 404, "Enrollment not found")
    ELSE IF ~FracGE(enrollments[<<userID, courseID>>].Progress, 100)
    THEN IssueResponse(userID, courseID, 400, "Course not completed")
    ELSE IF enrollments[<<userID, courseID>>].CertificateID # Null
    THEN IssueResponse(userID, courseID, 400, "Certificate already issued")
    ELSE NoResponse

GenerateCertificate_Begin(w, userID, courseID) ==
    /\ proc[w] = Idle
    /\ LET r == GenerateCertificate_Check(userID, courseID)
       IN  IF r = NoResponse
           THEN /\ now < MaxClock
                /\ proc' = [proc EXCEPT ![w] =
                       [ pc |-> "gc_create", UserID |-> userID, CourseID |-> courseID,
                         enrollment |-> enrollments[<<userID, courseID>>] ]]
                /\ resp' = [resp EXCEPT ![w] = NoResponse]
           ELSE /\ proc' = [proc EXCEPT ![w] = Idle]
                /\ resp' = [resp EXCEPT ![w] = r]
    /\ UNCHANGED <<now, lessonProgress, enrollments, certificates, quizAttempts, quizAnswers, submissions>>

\* time.Now().Format("20060102")
TicksPerDay == 3
Date(t) == t \div TicksPerDay

\* the row createCertificate hands to h.DB.Create
createCertificate(enrollment, verificationCode, t) ==
    [ ID |-> <<"LHC", enrollment.ID, Date(t)>>,
      EnrollmentID |-> enrollment.ID,
      UserID |-> enrollment.UserID,
      CourseID |-> enrollment.CourseID,
      IssueDate |-> t,
      VerificationCode |-> verificationCode ]

\* the table's primary key and its unique indexes on enrollment_id and
\* verification_code
CertificateInsertable(certificate) ==
    \A other \in certificates :
        /\ other.ID # certificate.ID
        /\ other.EnrollmentID # certificate.EnrollmentID
        /\ other.VerificationCode # certificate.VerificationCode

GenerateCertificate_Create(w) ==
    /\ proc[w].pc = "gc_create"
    /\ \E verificationCode \in VerificationCodes :
         LET certificate == createCertificate(proc[w].enrollment, verificationCode, now)
         IN  IF CertificateInsertable(certificate)
             THEN /\ certificates' = certificates \cup {certificate}
                  /\ proc' = [proc EXCEPT ![w] =
                         [ pc |-> "gc_save", UserID |-> @.UserID, CourseID |-> @.CourseID,
                           enrollment |-> @.enrollment, certificate |-> certificate ]]
                  /\ UNCHANGED resp
             ELSE /\ proc' = [proc EXCEPT ![w] = Idle]
                  /\ resp' = [resp EXCEPT ![w] =
                         IssueResponse(proc[w].UserID, proc[w].CourseID, 500,
                                       "Failed to generate certificate")]
                  /\ UNCHANGED certificates
    /\ UNCHANGED <<now, lessonProgress, enrollments, quizAttempts, quizAnswers, submissions>>

\* h.DB.Save(&enrollment): every column of the row read at the start of the
\* handler, with the certificate reference and issuance time set
GenerateCertificate_Save(w) ==
    /\ proc[w].pc = "gc_save"
    /\ enrollments' = [enrollments EXCEPT ![<<proc[w].UserID, proc[w].CourseID>>] =
           [proc[w].enrollment EXCEPT
               !.CertificateID = Some(proc[w].certificate.ID),
               !.CertificateIssuedAt = Some(now)]]
    /\ proc' = [proc EXCEPT ![w] = Idle]
    /\ resp' = [resp EXCEPT ![w] =
           IssueResponse(proc[w].UserID, proc[w].CourseID, 200, "")]
    /\ now' = now + 1
    /\ UNCHANGED <<lessonProgress, certificates, quizAttempts, quizAnswers, submissions>>

\* h.DB.Save(&enrollment) returns an error (the connection is lost, the
\* statement times out): the handler answers 500 and nothing is undone
GenerateCertificate_SaveFails(w) ==
    /\ proc[w].pc = "gc_save"
    /\ proc' = [proc EXCEPT ![w] = Idle]
    /\ resp' = [resp EXCEPT ![w] =
           IssueResponse(proc[w].UserID, proc[w].CourseID, 500,
                         "Failed to update enrollment")]
    /\ UNCHANGED <<now, lessonProgress, enrollments, certificates, quizAttempts,
                   quizAnswers, submissions>>

GenerateCertificate(w, admit) ==
    \/ \E userID \in Students, courseID \in Courses :
            admit /\ GenerateCertificate_Begin(w, userID, courseID)
    \/ GenerateCertificate_Create(w)
    \/ GenerateCertificate_Save(w)

(***************************************************************************)
(* Strings are sequences of one-character strings.                         *)
(***************************************************************************)
\* strings.ToLower
ToLower(s) ==
    [i \in DOMAIN s |->
        CASE s[i] = "A" -> "a"
          [] s[i] = "B" -> "b"
          [] s[i] = "C" -> "c"
          [] OTHER -> s[i]]

RECURSIVE TrimLeft(_)
TrimLeft(s) == IF s # << >> /\ Head(s) = " " THEN TrimLeft(Tail(s)) ELSE s

RECURSIVE TrimRight(_)
TrimRight(s) ==
    IF s # << >> /\ s[Len(s)] = " " THEN TrimRight(SubSeq(s, 1, Len(s) - 1)) ELSE s

\* strings.TrimSpace
TrimSpace(s) == TrimRight(TrimLeft(s))

\* strings.Contains
Contains(s, substr) ==
    \E i \in 1..(Len(s) - Len(substr) + 1) : SubSeq(s, i, i + Len(substr) - 1) = substr

normalizeString(s) == ToLower(TrimSpace(s))

(***************************************************************************)
(* The quizzes and questions CreateQuiz has stored (models.Quiz,           *)
(* models.QuizQuestion); no handler changes them afterwards.               *)
(***************************************************************************)
QuizIDs == {1, 2}
QuestionIDs == {1, 2, 3, 4}

\* the quizzes above, a quiz created with no questions and a quiz that is
\* not published
AllQuizIDs == QuizIDs \cup {3, 4}

Quiz(quizID) ==
    IF quizID = 1
    THEN [ ID |-> 1, CourseID |-> 1, IsPublished |-> TRUE, MaxAttempts |-> 2,
           PassingScore |-> 60, Questions |-> <<1, 2>> ]
    ELSE IF quizID = 2
    THEN [ ID |-> 2, CourseID |-> 1, IsPublished |-> TRUE, MaxAttempts |-> 1,
           PassingScore |-> 50, Questions |-> <<3, 4>> ]
    ELSE IF quizID = 3
    THEN [ ID |-> 3, CourseID |-> 1, IsPublished |-> TRUE, MaxAttempts |-> 1,
           PassingScore |-> 70, Questions |-> << >> ]
    ELSE [ ID |-> 4, CourseID |-> 1, IsPublished |-> FALSE, MaxAttempts |-> 1,
           PassingScore |-> 70, Questions |-> << >> ]

QuizQuestion(questionID) ==
    CASE questionID = 1 ->
            [ ID |-> 1, QuizID |-> 1, QuestionType |-> "multiple_choice",
              CorrectAnswer |-> <<"A">>, Points |-> 5 ]
      [] questionID = 2 ->
            [ ID |-> 2, QuizID |-> 1, QuestionType |-> "short_answer",
              CorrectAnswer |-> <<"a", "b">>, Points |-> 10 ]
      [] questionID = 3 ->
            [ ID |-> 3, QuizID |-> 2, QuestionType |-> "true_false",
              CorrectAnswer |-> <<"B">>, Points |-> 1 ]
      [] OTHER ->
            [ ID |-> 4, QuizID |-> 2, QuestionType |-> "coding",
              CorrectAnswer |-> <<"c">>, Points |-> 1 ]

\* values of QuizQuestion.CorrectAnswer (binding:"required": not empty)
CorrectAnswerTexts == { <<"A">>, <<"c">> }

\* input.Answer (binding:"required": not empty)
AnswerTexts == { <<"a">>, <<" ", "B">>, <<"c">> }

\* Preload("Questions"): the questions of a quiz
QuestionsOf(quizID) == {Quiz(quizID).Questions[i] : i \in DOMAIN Quiz(quizID).Questions}

(***************************************************************************)
(* AssessmentHandler.checkAnswer                                           *)
(***************************************************************************)
\* a faulty variant of checkAnswer: every type is graded by exact match (C22)
checkAnswerExact(question, answer) ==
    normalizeString(question.CorrectAnswer) = normalizeString(answer)

checkAnswer(question, answer) ==
    CASE question.QuestionType \in {"multiple_choice", "true_false"} ->
            normalizeString(question.CorrectAnswer) = normalizeString(answer)
      [] question.QuestionType = "short_answer" ->
            \/ Contains(normalizeString(question.CorrectAnswer), normalizeString(answer))
            \/ Contains(normalizeString(answer), normalizeString(question.CorrectAnswer))
      [] OTHER ->
            normalizeString(question.CorrectAnswer) = normalizeString(answer)

(***************************************************************************)
(* checkAnswer on its own: the question type and the two strings are drawn *)
(* at the start, one step applies the function.                            *)
(***************************************************************************)
MaxStrLen == 2       \* longest string handed to checkAnswer

\* the four declared question types and one that is not declared
QuestionTypes == {"multiple_choice", "true_false", "short_answer", "coding", "essay"}

Alphabet == {"a", "A", "b", " "}

RECURSIVE StringsUpTo(_)
StringsUpTo(n) ==
    IF n = 0 THEN { << >> }
    ELSE StringsUpTo(n - 1) \cup
         {Append(s, c) : s \in {t \in StringsUpTo(n - 1) : Len(t) = n - 1}, c \in Alphabet}

InitCheckAnswer ==
    /\ now = 1
    /\ lessonProgress = << >>
    /\ enrollments = [e \in Enrolled |-> NewEnrollment(e[1], e[2])]
    /\ certificates = {}
    /\ quizAttempts = << >>
    /\ quizAnswers = << >>
    /\ submissions = << >>
    /\ \E questionType \in QuestionTypes, correct \in StringsUpTo(MaxStrLen),
          answer \in StringsUpTo(MaxStrLen) :
            proc = [w \in Workers |->
                       IF w = 1
                       THEN [ pc |-> "checkAnswer",
                              question |-> [ QuestionType |-> questionType,
                                             CorrectAnswer |-> correct ],
                              answer |-> answer ]
                       ELSE Idle]
    /\ resp = [w \in Workers |-> NoResponse]

ApplyCheckAnswer(w) ==
    /\ proc[w].pc = "checkAnswer"
    /\ resp' = [resp EXCEPT ![w] =
           [ op |-> "checkAnswer", question |-> proc[w].question,
             answer |-> proc[w].answer,
             result |-> checkAnswer(proc[w].question, proc[w].answer) ]]
    /\ proc' = [proc EXCEPT ![w] = Idle]
    /\ UNCHANGED <<now, lessonProgress, enrollments, certificates, quizAttempts,
                   quizAnswers, submissions>>

NextCheckAnswer == ApplyCheckAnswer(1)

SpecCheckAnswer == InitCheckAnswer /\ [][NextCheckAnswer]_vars

(***************************************************************************)
(* AssessmentHandler.StartQuizAttempt (POST /quizzes/:quizId/attempt)      *)
(***************************************************************************)
QuizResponse(op, userID, status, error, body) ==
    [op |-> op, status |-> status, error |-> error, UserID |-> userID, body |-> body]

\* the sum of the points of the quiz's questions
TotalPoints(quizID) ==
    SumSeq([i \in DOMAIN Quiz(quizID).Questions |->
                QuizQuestion(Quiz(quizID).Questions[i]).Points])

\* Model(&QuizAttempt{}).Where("user_id = ? AND quiz_id = ?").Count
AttemptCount(userID, quizID) ==
    Cardinality({a \in DOMAIN quizAttempts :
                    quizAttempts[a].UserID = userID /\ quizAttempts[a].QuizID = quizID})

\* the checks before the attempt is created: the response that ends the
\* handler, or NoResponse to go on
\* a faulty variant of StartQuizAttempt_Check: only the attempt limit is
\* checked (C24)
StartQuizAttempt_CheckLimitOnly(userID, quizID) ==
    IF Quiz(quizID).MaxAttempts > 0
       /\ AttemptCount(userID, quizID) >= Quiz(quizID).MaxAttempts
    THEN QuizResponse("StartQuizAttempt", userID, 403, "Maximum attempts reached", Null)
    ELSE NoResponse

StartQuizAttempt_Check(userID, quizID) ==
    IF ~Quiz(quizID).IsPublished
    THEN QuizResponse("StartQuizAttempt", userID, 403, "Quiz is not available", Null)
    ELSE IF <<userID, Quiz(quizID).CourseID>> \notin DOMAIN enrollments
    THEN QuizResponse("StartQuizAttempt", userID, 403,
                      "You are not enrolled in this course", Null)
    ELSE IF Quiz(quizID).MaxAttempts > 0
            /\ AttemptCount(userID, quizID) >= Quiz(quizID).MaxAttempts
    THEN QuizResponse("StartQuizAttempt", userID, 403, "Maximum attempts reached", Null)
    ELSE NoResponse

StartQuizAttempt_Begin(w, userID, quizID) ==
    /\ proc[w] = Idle
    /\ now < MaxClock
    /\ LET r == StartQuizAttempt_Check(userID, quizID)
       IN  IF r = NoResponse
           THEN /\ proc' = [proc EXCEPT ![w] =
                       [pc |-> "start_create", UserID |-> userID, QuizID |-> quizID]]
                /\ resp' = [resp EXCEPT ![w] = NoResponse]
           ELSE /\ proc' = [proc EXCEPT ![w] = Idle]
                /\ resp' = [resp EXCEPT ![w] = r]
    /\ UNCHANGED <<now, lessonProgress, enrollments, certificates, quizAttempts, quizAnswers, submissions>>

\* the row handed to h.db.Create
NewQuizAttempt(userID, quizID, t) ==
    [ UserID |-> userID, QuizID |-> quizID, StartedAt |-> t,
      TotalPoints |-> TotalPoints(quizID),
      Score |-> FracZero, EarnedPoints |-> 0, IsCompleted |-> FALSE,
      IsPassed |-> FALSE, CompletedAt |-> Null, TimeSpent |-> 0 ]

\* Preload("Questions", ... Order("order_index ASC")).First(&quiz, quizID)
LoadQuiz(quizID) ==
    LET quiz == Quiz(quizID)
    IN  [quiz EXCEPT !.Questions = [i \in DOMAIN quiz.Questions |->
                                        QuizQuestion(quiz.Questions[i])]]

\* the helper without its loop
sanitizeQuizKeep(quiz) == quiz

\* AssessmentHandler.sanitizeQuiz
sanitizeQuiz(quiz) ==
    [quiz EXCEPT !.Questions = [i \in DOMAIN quiz.Questions |->
                                    [quiz.Questions[i] EXCEPT !.CorrectAnswer = << >>]]]

StartQuizAttempt_Create(w) ==
    /\ proc[w].pc = "start_create"
    /\ quizAttempts' = Append(quizAttempts,
                              NewQuizAttempt(proc[w].UserID, proc[w].QuizID, now))
    /\ proc' = [proc EXCEPT ![w] = Idle]
    /\ resp' = [resp EXCEPT ![w] =
           QuizResponse("StartQuizAttempt", proc[w].UserID, 200, "",
                        Some([ ID |-> Len(quizAttempts) + 1,
                               quiz |-> sanitizeQuiz(LoadQuiz(proc[w].QuizID)) ]))]
    /\ now' = now + 1
    /\ UNCHANGED <<lessonProgress, enrollments, certificates, quizAnswers, submissions>>

StartQuizAttempt(w, admit) ==
    \/ \E userID \in Users, quizID \in QuizIDs :
            admit /\ StartQuizAttempt_Begin(w, userID, quizID)
    \/ StartQuizAttempt_Create(w)

\* the same handler, where the quiz without questions can be asked for too
StartAnyQuizAttempt(w, admit) ==
    \/ \E userID \in Users, quizID \in AllQuizIDs :
            admit /\ StartQuizAttempt_Begin(w, userID, quizID)
    \/ StartQuizAttempt_Create(w)

(***************************************************************************)
(* AssessmentHandler.SubmitQuizAnswer (POST /attempts/:attemptId/answer)   *)
(***************************************************************************)
\* Where("attempt_id = ? AND question_id = ?").First: the row with the least
\* ID, 0 for gorm.ErrRecordNotFound
FirstQuizAnswer(attemptID, questionID) ==
    LET matching == {i \in DOMAIN quizAnswers :
                        /\ quizAnswers[i].AttemptID = attemptID
                        /\ quizAnswers[i].QuestionID = questionID}
    IN  IF matching = {} THEN 0
        ELSE CHOOSE i \in matching : \A j \in matching : i <= j

\* the checks on the attempt and the question: the response that ends the
\* handler, or NoResponse to go on
SubmitQuizAnswer_Check(userID, attemptID, questionID) ==
    IF attemptID \notin DOMAIN quizAttempts \/ quizAttempts[attemptID].UserID # userID
    THEN QuizResponse("SubmitQuizAnswer", userID, 404, "Attempt not found", Null)
    ELSE IF quizAttempts[attemptID].IsCompleted
    THEN QuizResponse("SubmitQuizAnswer", userID, 403, "Attempt already completed", Null)
    ELSE IF questionID \notin QuestionsOf(quizAttempts[attemptID].QuizID)
    THEN QuizResponse("SubmitQuizAnswer", userID, 404, "Question not found", Null)
    ELSE NoResponse

SubmitQuizAnswer_Begin(w, userID, attemptID, questionID, answer) ==
    /\ proc[w] = Idle
    /\ now < MaxClock
    /\ LET r == SubmitQuizAnswer_Check(userID, attemptID, questionID)
           existing == FirstQuizAnswer(attemptID, questionID)
       IN  IF r = NoResponse
           THEN /\ proc' = [proc EXCEPT ![w] =
                       [ pc |-> "answer_write", UserID |-> userID,
                         AttemptID |-> attemptID, QuestionID |-> questionID,
                         Answer |-> answer, existing |-> existing,
                         existingAnswer |-> IF existing = 0 THEN Null
                                            ELSE Some(quizAnswers[existing]) ]]
                /\ resp' = [resp EXCEPT ![w] = NoResponse]
           ELSE /\ proc' = [proc EXCEPT ![w] = Idle]
                /\ resp' = [resp EXCEPT ![w] = r]
    /\ UNCHANGED <<now, lessonProgress, enrollments, certificates, quizAttempts, quizAnswers, submissions>>

\* a faulty variant of PointsEarned: every text earns the points (C23)
PointsEarnedForAnyText(question, answer) == question.Points

\* the points a submitted text earns: the question's points or nothing
PointsEarned(question, answer) ==
    IF checkAnswer(question, answer) THEN question.Points ELSE 0

\* the row handed to h.db.Create
NewQuizAnswer(attemptID, questionID, answer) ==
    [ AttemptID |-> attemptID, QuestionID |-> questionID, Answer |-> answer,
      IsCorrect |-> checkAnswer(QuizQuestion(questionID), answer),
      PointsEarned |-> PointsEarned(QuizQuestion(questionID), answer) ]

\* a faulty variant of UpdatedQuizAnswer: the points of the earlier text are
\* kept (C5)
UpdatedQuizAnswerKeepPoints(existingAnswer, questionID, answer) ==
    [existingAnswer EXCEPT
        !.Answer = answer,
        !.IsCorrect = checkAnswer(QuizQuestion(questionID), answer)]

\* the row handed to h.db.Save
UpdatedQuizAnswer(existingAnswer, questionID, answer) ==
    [existingAnswer EXCEPT
        !.Answer = answer,
        !.IsCorrect = checkAnswer(QuizQuestion(questionID), answer),
        !.PointsEarned = PointsEarned(QuizQuestion(questionID), answer)]

SubmitQuizAnswer_Write(w) ==
    /\ proc[w].pc = "answer_write"
    /\ LET answer ==
              IF proc[w].existing = 0
              THEN NewQuizAnswer(proc[w].AttemptID, proc[w].QuestionID, proc[w].Answer)
              ELSE UpdatedQuizAnswer(proc[w].existingAnswer[1], proc[w].QuestionID,
                                     proc[w].Answer)
       IN  /\ quizAnswers' =
                  IF proc[w].existing = 0
                  THEN Append(quizAnswers, answer)
                  ELSE [quizAnswers EXCEPT ![proc[w].existing] = answer]
           /\ resp' = [resp EXCEPT ![w] =
                  QuizResponse("SubmitQuizAnswer", proc[w].UserID, 200, "", Some(answer))]
    /\ proc' = [proc EXCEPT ![w] = Idle]
    /\ now' = now + 1
    /\ UNCHANGED <<lessonProgress, enrollments, certificates, quizAttempts, submissions>>

SubmitQuizAnswer(w, admit) ==
    \/ \E userID \in Users, attemptID \in DOMAIN quizAttempts,
          questionID \in QuestionIDs, answer \in AnswerTexts :
            admit /\ SubmitQuizAnswer_Begin(w, userID, attemptID, questionID, answer)
    \/ SubmitQuizAnswer_Write(w)

(***************************************************************************)
(* AssessmentHandler.CompleteQuizAttempt (POST /attempts/:attemptId/complete)*)
(***************************************************************************)
\* Preload("Answers"): the answer rows of the attempt, and the sum of their
\* points
AnswersOf(attemptID) == {i \in DOMAIN quizAnswers : quizAnswers[i].AttemptID = attemptID}

EarnedPoints(attemptID) ==
    SumSeq([i \in DOMAIN quizAnswers |->
                IF i \in AnswersOf(attemptID) THEN quizAnswers[i].PointsEarned ELSE 0])

\* the row handed to h.db.Save
CompletedAttempt(attempt, earnedPoints, t) ==
    LET score == Frac(earnedPoints * 100, attempt.TotalPoints)
    IN  [attempt EXCEPT
            !.Score = score,
            !.EarnedPoints = earnedPoints,
            !.IsCompleted = TRUE,
            !.IsPassed = FracGE(score, Quiz(attempt.QuizID).PassingScore),
            !.CompletedAt = Some(t),
            !.TimeSpent = t - attempt.StartedAt]

\* the attempt is not completed yet: its answers are loaded and summed
CompleteQuizAttempt_Load(w, userID, attemptID) ==
    /\ proc' = [proc EXCEPT ![w] =
           [ pc |-> "complete_save", UserID |-> userID, AttemptID |-> attemptID,
             attempt |-> quizAttempts[attemptID],
             earnedPoints |-> EarnedPoints(attemptID) ]]
    /\ resp' = [resp EXCEPT ![w] = NoResponse]
    /\ UNCHANGED now

\* a faulty variant of CompleteQuizAttempt_Stored: a completed attempt is
\* scored again (C4)
CompleteQuizAttempt_Recompute(w, userID, attemptID) ==
    CompleteQuizAttempt_Load(w, userID, attemptID)

\* the attempt is completed already: the stored row is the answer
CompleteQuizAttempt_Stored(w, userID, attemptID) ==
    /\ proc' = [proc EXCEPT ![w] = Idle]
    /\ resp' = [resp EXCEPT ![w] =
           QuizResponse("CompleteQuizAttempt", userID, 200, "",
                        Some(quizAttempts[attemptID]))]
    /\ now' = now + 1

CompleteQuizAttempt_Begin(w, userID, attemptID) ==
    /\ proc[w] = Idle
    /\ now < MaxClock
    /\ IF attemptID \notin DOMAIN quizAttempts \/ quizAttempts[attemptID].UserID # userID
       THEN /\ proc' = [proc EXCEPT ![w] = Idle]
            /\ resp' = [resp EXCEPT ![w] =
                   QuizResponse("CompleteQuizAttempt", userID, 404, "Attempt not found", Null)]
            /\ UNCHANGED now
       ELSE IF quizAttempts[attemptID].IsCompleted
       THEN CompleteQuizAttempt_Stored(w, userID, attemptID)
       ELSE CompleteQuizAttempt_Load(w, userID, attemptID)
    /\ UNCHANGED <<lessonProgress, enrollments, certificates, quizAttempts, quizAnswers, submissions>>

CompleteQuizAttempt_Save(w) ==
    /\ proc[w].pc = "complete_save"
    /\ LET attempt == CompletedAttempt(proc[w].attempt, proc[w].earnedPoints, now)
       IN  /\ quizAttempts' = [quizAttempts EXCEPT ![proc[w].AttemptID] = attempt]
           /\ resp' = [resp EXCEPT ![w] =
                  QuizResponse("CompleteQuizAttempt", proc[w].UserID, 200, "", Some(attempt))]
    /\ proc' = [proc EXCEPT ![w] = Idle]
    /\ now' = now + 1
    /\ UNCHANGED <<lessonProgress, enrollments, certificates, quizAnswers, submissions>>

CompleteQuizAttempt(w, admit) ==
    \/ \E userID \in Users, attemptID \in DOMAIN quizAttempts :
            admit /\ CompleteQuizAttempt_Begin(w, userID, attemptID)
    \/ CompleteQuizAttempt_Save(w)

(***************************************************************************)
(* The assignments CreateAssignment has stored (models.Assignment) and the *)
(* instructor of their course (models.Course.InstructorID): user 2.        *)
(***************************************************************************)
Assignments == {1}

Assignment(assignmentID) ==
    [ ID |-> assignmentID, CourseID |-> 1, IsPublished |-> TRUE, MaxPoints |-> 2 ]

CourseInstructor(courseID) == 2

\* c.PostForm("submission_text"); no file is uploaded
SubmissionTexts == {"", "text"}

\* input.Grade (float64) and input.Feedback
Grades == {-1, 0, 1, 2, 3}
Feedbacks == {"good"}

(***************************************************************************)
(* AssessmentHandler.SubmitAssignment                                      *)
(* (POST /assignments/:assignmentId/submit)                                *)
(***************************************************************************)
SubmitResponse(userID, assignmentID, status, error) ==
    [ op |-> "SubmitAssignment", status |-> status, error |-> error,
      UserID |-> userID, AssignmentID |-> assignmentID ]

\* Where("assignment_id = ? AND user_id = ?"): the rows of the pair
SubmissionsOf(assignmentID, userID) ==
    {i \in DOMAIN submissions : /\ submissions[i].AssignmentID = assignmentID
                                /\ submissions[i].UserID = userID}

\* the checks before the submission is created: the response that ends the
\* handler, or NoResponse to go on
SubmitAssignment_Check(userID, assignmentID, submissionText) ==
    IF ~Assignment(assignmentID).IsPublished
    THEN SubmitResponse(userID, assignmentID, 403, "Assignment is not available")
    ELSE IF <<userID, Assignment(assignmentID).CourseID>> \notin DOMAIN enrollments
    THEN SubmitResponse(userID, assignmentID, 403, "You are not enrolled in this course")
    ELSE IF SubmissionsOf(assignmentID, userID) # {}
    THEN SubmitResponse(userID, assignmentID, 403, "Already submitted this assignment")
    ELSE IF submissionText = ""
    THEN SubmitResponse(userID, assignmentID, 400,
                        "Either file or text submission is required")
    ELSE NoResponse

SubmitAssignment_Begin(w, userID, assignmentID, submissionText) ==
    /\ proc[w] = Idle
    /\ now < MaxClock
    /\ LET r == SubmitAssignment_Check(userID, assignmentID, submissionText)
       IN  IF r = NoResponse
           THEN /\ proc' = [proc EXCEPT ![w] =
                       [ pc |-> "sa_create", UserID |-> userID,
                         AssignmentID |-> assignmentID,
                         SubmissionText |-> submissionText ]]
                /\ resp' = [resp EXCEPT ![w] = NoResponse]
           ELSE /\ proc' = [proc EXCEPT ![w] = Idle]
                /\ resp' = [resp EXCEPT ![w] = r]
    /\ UNCHANGED <<now, lessonProgress, enrollments, certificates, quizAttempts,
                   quizAnswers, submissions>>

\* the row handed to h.db.Create
NewSubmission(userID, assignmentID, submissionText, t) ==
    [ AssignmentID |-> assignmentID, UserID |-> userID,
      SubmissionText |-> submissionText, SubmittedAt |-> t,
      Grade |-> Null, GradedAt |-> Null, Feedback |-> "", IsGraded |-> FALSE ]

SubmitAssignment_Create(w) ==
    /\ proc[w].pc = "sa_create"
    /\ submissions' = Append(submissions,
           NewSubmission(proc[w].UserID, proc[w].AssignmentID,
                         proc[w].SubmissionText, now))
    /\ proc' = [proc EXCEPT ![w] = Idle]
    /\ resp' = [resp EXCEPT ![w] =
           SubmitResponse(proc[w].UserID, proc[w].AssignmentID, 201, "")]
    /\ now' = now + 1
    /\ UNCHANGED <<lessonProgress, enrollments, certificates, quizAttempts, quizAnswers>>

SubmitAssignment(w, admit) ==
    \/ \E userID \in Users, assignmentID \in Assignments,
          submissionText \in SubmissionTexts :
            admit /\ SubmitAssignment_Begin(w, userID, assignmentID, submissionText)
    \/ SubmitAssignment_Create(w)

(***************************************************************************)
(* AssessmentHandler.GradeAssignment                                       *)
(* (POST /submissions/:submissionId/grade)                                 *)
(***************************************************************************)
GradeResponse(userID, submissionID, grade, status, error) ==
    [ op |-> "GradeAssignment", status |-> status, error |-> error,
      UserID |-> userID, SubmissionID |-> submissionID, Grade |-> grade ]

\* c.ShouldBindJSON with binding:"required" on a float64: the validator
\* rejects the zero value
GradeBinds(grade) == grade # 0

\* the binding and the checks on the submission: the response that ends the
\* handler, or NoResponse to go on
GradeAssignment_Check(userID, submissionID, grade) ==
    IF ~GradeBinds(grade)
    THEN GradeResponse(userID, submissionID, grade, 400,
                       "Field validation for 'Grade' failed on the 'required' tag")
    ELSE IF submissionID \notin DOMAIN submissions
    THEN GradeResponse(userID, submissionID, grade, 404, "Submission not found")
    ELSE IF CourseInstructor(Assignment(submissions[submissionID].AssignmentID).CourseID)
                # userID
    THEN GradeResponse(userID, submissionID, grade, 403,
                       "Not authorized to grade this assignment")
    ELSE IF grade < 0
            \/ grade > Assignment(submissions[submissionID].AssignmentID).MaxPoints
    THEN GradeResponse(userID, submissionID, grade, 400, "Invalid grade")
    ELSE NoResponse

GradeAssignment_Begin(w, userID, submissionID, grade, feedback) ==
    /\ proc[w] = Idle
    /\ now < MaxClock
    /\ LET r == GradeAssignment_Check(userID, submissionID, grade)
       IN  IF r = NoResponse
           THEN /\ proc' = [proc EXCEPT ![w] =
                       [ pc |-> "ga_save", UserID |-> userID,
                         SubmissionID |-> submissionID, Grade |-> grade,
                         Feedback |-> feedback,
                         submission |-> submissions[submissionID] ]]
                /\ resp' = [resp EXCEPT ![w] = NoResponse]
           ELSE /\ proc' = [proc EXCEPT ![w] = Idle]
                /\ resp' = [resp EXCEPT ![w] = r]
    /\ UNCHANGED <<now, lessonProgress, enrollments, certificates, quizAttempts,
                   quizAnswers, submissions>>

\* the row handed to h.db.Save
GradedSubmission(submission, grade, feedback, t) ==
    [submission EXCEPT
        !.Grade = Some(grade),
        !.Feedback = feedback,
        !.IsGraded = TRUE,
        !.GradedAt = Some(t)]

GradeAssignment_Save(w) ==
    /\ proc[w].pc = "ga_save"
    /\ submissions' = [submissions EXCEPT ![proc[w].SubmissionID] =
           GradedSubmission(proc[w].submission, proc[w].Grade, proc[w].Feedback, now)]
    /\ proc' = [proc EXCEPT ![w] = Idle]
    /\ resp' = [resp EXCEPT ![w] =
           GradeResponse(proc[w].UserID, proc[w].SubmissionID, proc[w].Grade, 200, "")]
    /\ now' = now + 1
    /\ UNCHANGED <<lessonProgress, enrollments, certificates, quizAttempts, quizAnswers>>

GradeAssignment(w, admit) ==
    \/ \E userID \in Users, submissionID \in 1..(Len(submissions) + 1),
          grade \in Grades, feedback \in Feedbacks :
            admit /\ GradeAssignment_Begin(w, userID, submissionID, grade, feedback)
    \/ GradeAssignment_Save(w)

(***************************************************************************)
(* Specifications.  `admit` is the condition under which a worker takes a  *)
(* new request.  Spec and SpecQuiz: one worker, so requests are served one *)
(* after the other.  SpecIssueRace and SpecQuizConcurrent: the handlers of *)
(* two workers interleave step by step.                                    *)
(***************************************************************************)
Next ==
    \/ UpdateLessonProgress(1, TRUE)
    \/ GenerateCertificate(1, TRUE)

Spec == Init /\ [][Next]_vars

\* The same handlers, started where user 2 has completed course 1 at time 0
\* and holds its certificate: completed rows for the lessons of the course,
\* the enrollment as updateEnrollmentProgress and GenerateCertificate left it,
\* the certificate row as createCertificate made it, with a verification code
\* that a later request generates again ("LHC-1") or not ("LHC-0").
IssuedCodes == {"LHC-0", "LHC-1"}

IssuedCertificate(userID, courseID, verificationCode) ==
    createCertificate(NewEnrollment(userID, courseID), verificationCode, 0)

IssuedEnrollment(userID, courseID, verificationCode) ==
    [ NewEnrollment(userID, courseID) EXCEPT
        !.Progress = Frac(NLessons * 100, NLessons),
        !.TotalLessons = NLessons,
        !.CompletedLessons = NLessons,
        !.CompletedAt = Some(0),
        !.CertificateID = Some(IssuedCertificate(userID, courseID, verificationCode).ID),
        !.CertificateIssuedAt = Some(0) ]

InitIssued ==
    /\ now = 1
    /\ lessonProgress = [l \in 1..NLessons |->
           [ UserID |-> 2, LessonID |-> l, CourseID |-> 1, Completed |-> TRUE,
             CompletedAt |-> Some(0), TimeSpent |-> 0 ]]
    /\ \E verificationCode \in IssuedCodes :
         /\ enrollments = [e \in Enrolled \cup {<<2, 1>>} |->
                IF e = <<2, 1>> THEN IssuedEnrollment(2, 1, verificationCode)
                ELSE NewEnrollment(e[1], e[2])]
         /\ certificates = {IssuedCertificate(2, 1, verificationCode)}
    /\ quizAttempts = << >>
    /\ quizAnswers = << >>
    /\ submissions = << >>
    /\ proc = [w \in Workers |-> Idle]
    /\ resp = [w \in Workers |-> NoResponse]

SpecIssued == InitIssued /\ [][Next]_vars

\* no handler of the given kind is running
NoneAt(pcs) == \A v \in Workers : proc[v].pc \notin pcs

\* the requests to ProgressHandler.UpdateLessonProgress are served with no
\* other request running; those to GenerateCertificate interleave
NextIssueRace ==
    \/ UpdateLessonProgress(1, now < MaxRaceClock /\ NoneAt({"gc_create", "gc_save"}))
    \/ \E w \in Workers :
          GenerateCertificate(w, NoneAt({"ulp_lesson", "ulp_enrollment", "ulp_commit"}))

SpecIssueRace == Init /\ [][NextIssueRace]_vars

\* the handlers of Spec, where the enrollment update of GenerateCertificate
\* can fail
NextIssueFaulty ==
    \/ UpdateLessonProgress(1, now < MaxRaceClock)
    \/ GenerateCertificate(1, TRUE)
    \/ GenerateCertificate_SaveFails(1)

SpecIssueFaulty == Init /\ [][NextIssueFaulty]_vars

NextQuiz ==
    \/ StartQuizAttempt(1, TRUE)
    \/ SubmitQuizAnswer(1, TRUE)
    \/ CompleteQuizAttempt(1, TRUE)

SpecQuiz == Init /\ [][NextQuiz]_vars

\* the quiz routes with every quiz, the one without questions included
NextQuizAll ==
    \/ StartAnyQuizAttempt(1, now < MaxRaceClock)
    \/ SubmitQuizAnswer(1, now < MaxRaceClock)
    \/ CompleteQuizAttempt(1, now < MaxRaceClock)

SpecQuizAll == Init /\ [][NextQuizAll]_vars

NextQuizConcurrent ==
    \E w \in Workers :
        \/ StartQuizAttempt(w, now < MaxRaceClock)
        \/ SubmitQuizAnswer(w, now < MaxRaceClock)
        \/ CompleteQuizAttempt(w, now < MaxRaceClock)

SpecQuizConcurrent == Init /\ [][NextQuizConcurrent]_vars

\* the three handlers that write lesson progress, served one after the other
NextProgress ==
    \/ UpdateLessonProgress(1, now < MaxRaceClock)
    \/ LessonHandler_UpdateLessonProgress(1, now < MaxRaceClock)
    \/ CourseHandler_UpdateLessonProgress(1, now < MaxRaceClock)

SpecProgress == Init /\ [][NextProgress]_vars

\* ProgressHandler.UpdateLessonProgress served by two workers whose
\* transactions interleave
NextProgressRace ==
    \E w \in Workers : UpdateLessonProgress(w, now < MaxRaceClock)

SpecProgressRace == Init /\ [][NextProgressRace]_vars

\* GenerateCertificate of one worker interleaves with the transactions of
\* ProgressHandler.UpdateLessonProgress of the other
NextIssueProgressRace ==
    \/ GenerateCertificate(1, TRUE)
    \/ UpdateLessonProgress(2, TRUE)

SpecIssueProgressRace == Init /\ [][NextIssueProgressRace]_vars

\* the quiz routes served by two workers, with one more request than in
\* SpecQuizConcurrent: an attempt can be started, answered twice and then
\* completed
NextQuizConcurrentLong ==
    \E w \in Workers :
        \/ StartQuizAttempt(w, now < MaxRaceClock + 1)
        \/ SubmitQuizAnswer(w, now < MaxRaceClock + 1)
        \/ CompleteQuizAttempt(w, now < MaxRaceClock + 1)

SpecQuizConcurrentLong == Init /\ [][NextQuizConcurrentLong]_vars

NextAssignment ==
    \/ SubmitAssignment(1, TRUE)
    \/ GradeAssignment(1, TRUE)

SpecAssignment == Init /\ [][NextAssignment]_vars

NextAssignmentConcurrent ==
    \E w \in Workers :
        \/ SubmitAssignment(w, now < MaxRaceClock)
        \/ GradeAssignment(w, now < MaxRaceClock)

SpecAssignmentConcurrent == Init /\ [][NextAssignmentConcurrent]_vars

(***************************************************************************)
(* Progress aggregate (ProgressHandler.UpdateLessonProgress), under Spec.  *)
(***************************************************************************)
\* C1: after a successful UpdateLessonProgress the stored aggregate of the
\* enrollment counts the user's completed lesson-progress rows of the course,
\* the row just written included: CompletedLessons is that count and Progress
\* is count / total lessons * 100.
C1_AggregateCountsRowJustWritten ==
    \A w \in Workers :
        (resp[w].op = "UpdateLessonProgress" /\ resp[w].status = 200) =>
            LET enrollment == enrollments[<<resp[w].UserID, resp[w].CourseID>>]
                total == CountTotalLessons(resp[w].CourseID)
                completed == Cardinality(CompletedRows(lessonProgress, resp[w].CourseID,
                                                       resp[w].UserID))
            IN  /\ enrollment.CompletedLessons = completed
                /\ enrollment.Progress.num * total = completed * 100 * enrollment.Progress.den

(***************************************************************************)
(* Certificate issuance (ProgressHandler.GenerateCertificate).             *)
(***************************************************************************)
\* C2: when calls of GenerateCertificate for one enrollment run concurrently,
\* exactly one certificate row is created, one call succeeds and every other
\* call is rejected with the 400 'Certificate already issued': no call fails
\* in any other way.  Under SpecIssueRace.
C2_OneSuccessOthersAlreadyIssued ==
    /\ \A e \in DOMAIN enrollments :
          Cardinality({c \in certificates : c.EnrollmentID = enrollments[e].ID}) <= 1
    /\ \A w \in Workers :
          (resp[w].op = "GenerateCertificate" /\ resp[w].status \notin {200, 404}) =>
              /\ resp[w].status = 400
              /\ resp[w].error \in {"Certificate already issued", "Course not completed"}

\* C7: a certificate row is created only for an enrollment whose stored
\* progress is >= 100 at that time; a call for an enrollment with stored
\* progress < 100, or with no enrollment, is rejected, creates no certificate
\* row and leaves the enrollment row, its certificate reference included, as
\* it was.  Under Spec.
C7_MintsOnlyAtFullProgress ==
    [][ /\ \A c \in certificates' \ certificates :
              /\ c.EnrollmentID \in DOMAIN enrollments
              /\ enrollments[c.EnrollmentID].Progress.den > 0
              /\ enrollments[c.EnrollmentID].Progress.num
                     >= 100 * enrollments[c.EnrollmentID].Progress.den
        /\ \A userID \in Students, courseID \in Courses :
              ( /\ GenerateCertificate_Begin(1, userID, courseID)
                /\ \/ <<userID, courseID>> \notin DOMAIN enrollments
                   \/ enrollments[<<userID, courseID>>].Progress.num
                          < 100 * enrollments[<<userID, courseID>>].Progress.den )
              => /\ proc'[1] = Idle
                 /\ resp'[1].op = "GenerateCertificate"
                 /\ resp'[1].status \in {400, 404}
                 /\ certificates' = certificates
                 /\ enrollments' = enrollments
      ]_vars

\* C7 witness: a certificate has been issued for the enrollment of user 1.
C7_Witness ==
    /\ resp[1].op = "GenerateCertificate"
    /\ resp[1].status = 200
    /\ \E c \in certificates :
          /\ c.EnrollmentID = <<1, 1>>
          /\ enrollments[<<1, 1>>].CertificateID = Some(c.ID)

C9_CompletedAtIsKept ==
    [][ \A e \in DOMAIN enrollments :
            enrollments[e].CompletedAt # Null
                => enrollments'[e].CompletedAt = enrollments[e].CompletedAt ]_vars

\* C9 witness: the enrollment was completed at an earlier request and its
\* stored progress has since dropped below 100.
C9_Witness ==
    \E e \in DOMAIN enrollments :
        /\ enrollments[e].CompletedAt # Null
        /\ enrollments[e].CompletedAt[1] < enrollments[e].LastActivityAt
        /\ enrollments[e].Progress.num < 100 * enrollments[e].Progress.den

\* C10: updateEnrollmentProgress run twice in a row over the same
\* lesson-progress rows: the second run stores the same total lessons,
\* completed lessons, time spent, progress and completion time as the first.
C10_RecomputeIdempotent ==
    \A e \in DOMAIN enrollments :
        LET first == updateEnrollmentProgress(enrollments[e], lessonProgress,
                                              e[1], e[2], now)
            second == updateEnrollmentProgress(first, lessonProgress, e[1], e[2], now + 1)
        IN  /\ second.TotalLessons = first.TotalLessons
            /\ second.CompletedLessons = first.CompletedLessons
            /\ second.TimeSpent = first.TimeSpent
            /\ second.Progress = first.Progress
            /\ second.CompletedAt = first.CompletedAt

\* C10 witness: a state in which the first of the two runs changes the stored
\* aggregate and stamps the completion time.
C10_Witness ==
    \E e \in DOMAIN enrollments :
        LET first == updateEnrollmentProgress(enrollments[e], lessonProgress,
                                              e[1], e[2], now)
        IN  /\ enrollments[e].CompletedAt = Null
            /\ first.CompletedAt = Some(now)
            /\ first.Progress # enrollments[e].Progress
            /\ first.TimeSpent > enrollments[e].TimeSpent

(***************************************************************************)
(* Quiz attempts (AssessmentHandler).                                      *)
(***************************************************************************)
\* C3: once an attempt is completed no answer row of it is created or
\* changed, also when SubmitQuizAnswer and CompleteQuizAttempt of two workers
\* interleave.  Under SpecQuizConcurrent.
C3_NoAnswerWrittenAfterCompletion ==
    [][ \A a \in DOMAIN quizAttempts :
            quizAttempts[a].IsCompleted =>
                \A i \in DOMAIN quizAnswers' :
                    quizAnswers'[i].AttemptID = a =>
                        /\ i \in DOMAIN quizAnswers
                        /\ quizAnswers'[i] = quizAnswers[i] ]_vars

\* C4: CompleteQuizAttempt on an attempt that is completed already is
\* answered 200 with the stored row, and no step changes the row of a
\* completed attempt: score, earned points, passed, completion time and time
\* spent stay as stored.  Under SpecQuiz.
C4_CompleteIsIdempotent ==
    [][ \A a \in DOMAIN quizAttempts :
            quizAttempts[a].IsCompleted =>
                /\ quizAttempts'[a] = quizAttempts[a]
                /\ CompleteQuizAttempt_Begin(1, quizAttempts[a].UserID, a) =>
                      /\ proc'[1] = Idle
                      /\ resp'[1] = QuizResponse("CompleteQuizAttempt",
                                                 quizAttempts[a].UserID, 200, "",
                                                 Some(quizAttempts[a])) ]_vars

\* C4 witness: CompleteQuizAttempt has been answered 200 with the row of an
\* attempt that an earlier request completed.
C4_Witness ==
    /\ resp[1].op = "CompleteQuizAttempt"
    /\ resp[1].status = 200
    /\ resp[1].body[1].IsCompleted
    /\ resp[1].body[1].CompletedAt[1] < now - 1
    /\ resp[1].body[1] \in {quizAttempts[a] : a \in DOMAIN quizAttempts}

\* C5: the result of a completed attempt is a function of the final answer
\* text of each question, whatever the order of the submissions and the
\* texts submitted before: there is one answer row per answered question, the
\* earned points are the points the final texts earn, and score and passed
\* follow from them.  Under SpecQuiz.
C5_ResultFromFinalTexts ==
    \A a \in DOMAIN quizAttempts :
        quizAttempts[a].IsCompleted =>
            LET questions == Quiz(quizAttempts[a].QuizID).Questions
                rows(q) == {i \in AnswersOf(a) : quizAnswers[i].QuestionID = q}
                finalPoints ==
                    SumSeq([k \in DOMAIN questions |->
                        IF rows(questions[k]) = {} THEN 0
                        ELSE LET i == CHOOSE i \in rows(questions[k]) : TRUE
                             IN  IF checkAnswer(QuizQuestion(questions[k]),
                                                quizAnswers[i].Answer)
                                 THEN QuizQuestion(questions[k]).Points ELSE 0])
            IN  /\ \A q \in QuestionIDs : Cardinality(rows(q)) <= 1
                /\ quizAttempts[a].EarnedPoints = finalPoints
                /\ quizAttempts[a].Score.num * quizAttempts[a].TotalPoints
                       = finalPoints * 100 * quizAttempts[a].Score.den
                /\ quizAttempts[a].IsPassed
                       = (finalPoints * 100 >= Quiz(quizAttempts[a].QuizID).PassingScore
                                                   * quizAttempts[a].TotalPoints)

\* C5 witness: a completed attempt of quiz 1 whose second question was
\* answered before its first, both with a final text that earns points.
C5_Witness ==
    \E a \in DOMAIN quizAttempts :
        /\ quizAttempts[a].IsCompleted
        /\ quizAttempts[a].QuizID = 1
        /\ quizAttempts[a].EarnedPoints = 15
        /\ \E i, j \in AnswersOf(a) :
              /\ i < j
              /\ quizAnswers[i].QuestionID = 2
              /\ quizAnswers[j].QuestionID = 1

\* C6: CompleteQuizAttempt stores the sum of the points of the attempt's
\* answer rows as earned points, earned / total points * 100 as score (total
\* points as stored when the attempt started), score >= passing score as
\* passed (equality passes), and marks the attempt completed with a
\* completion time.  Under SpecQuiz.
C6_CompletionScores ==
    \A a \in DOMAIN quizAttempts :
        quizAttempts[a].IsCompleted =>
            /\ quizAttempts[a].TotalPoints = TotalPoints(quizAttempts[a].QuizID)
            /\ quizAttempts[a].EarnedPoints = EarnedPoints(a)
            /\ quizAttempts[a].Score.den > 0
            /\ quizAttempts[a].Score.num * quizAttempts[a].TotalPoints
                   = EarnedPoints(a) * 100 * quizAttempts[a].Score.den
            /\ quizAttempts[a].IsPassed
                   = (quizAttempts[a].Score.num
                          >= Quiz(quizAttempts[a].QuizID).PassingScore
                                 * quizAttempts[a].Score.den)
            /\ quizAttempts[a].CompletedAt # Null

\* C6 witness: the quiz with a 5-point and a 10-point question and passing
\* score 60, completed with only the first question answered correctly:
\* 5 of 15 points, score 5/15*100, not passed.
C6_Witness ==
    \E a \in DOMAIN quizAttempts :
        /\ quizAttempts[a].IsCompleted
        /\ quizAttempts[a].QuizID = 1
        /\ Cardinality(AnswersOf(a)) = 2
        /\ quizAttempts[a].EarnedPoints = 5
        /\ quizAttempts[a].TotalPoints = 15
        /\ quizAttempts[a].Score.num * 15 = 500 * quizAttempts[a].Score.den
        /\ ~quizAttempts[a].IsPassed

\* C11: for a quiz with MaxAttempts > 0 the attempts of one user at the quiz
\* never exceed MaxAttempts, also when StartQuizAttempt requests of two
\* workers interleave.  Under SpecQuizConcurrent.
C11_AttemptsWithinLimit ==
    \A userID \in Users, quizID \in QuizIDs :
        Quiz(quizID).MaxAttempts > 0
            => AttemptCount(userID, quizID) <= Quiz(quizID).MaxAttempts

(***************************************************************************)
(* Assignments (AssessmentHandler.SubmitAssignment, GradeAssignment).      *)
(***************************************************************************)
\* C12: a grade request of the instructor of the assignment's course for an
\* existing submission with 0 <= grade <= MaxPoints, both bounds included, is
\* answered 200; with grade < 0 or grade > MaxPoints it is answered 400.
\* Under SpecAssignment.
C12_GradeInRangeAccepted ==
    \A w \in Workers :
        ( /\ resp[w].op = "GradeAssignment"
          /\ resp[w].SubmissionID \in DOMAIN submissions
          /\ resp[w].UserID = CourseInstructor(
                 Assignment(submissions[resp[w].SubmissionID].AssignmentID).CourseID) )
        => LET maxPoints ==
                   Assignment(submissions[resp[w].SubmissionID].AssignmentID).MaxPoints
           IN  IF 0 <= resp[w].Grade /\ resp[w].Grade <= maxPoints
               THEN resp[w].status = 200
               ELSE resp[w].status = 400

\* C16: at most one submission row exists per (assignment, user), also when
\* SubmitAssignment requests of two workers interleave.  Under
\* SpecAssignmentConcurrent.
C16_OneSubmissionPerPair ==
    \A assignmentID \in Assignments, userID \in Users :
        Cardinality(SubmissionsOf(assignmentID, userID)) <= 1

\* C15: at most one answer row exists per (attempt, question), also when
\* SubmitQuizAnswer requests of two workers for the same pair interleave.
\* Under SpecQuizConcurrent.
C15_OneAnswerPerQuestion ==
    \A a \in DOMAIN quizAttempts, q \in QuestionIDs :
        Cardinality({i \in AnswersOf(a) : quizAnswers[i].QuestionID = q}) <= 1

(***************************************************************************)
(* The three writers of lesson progress, under SpecProgress.               *)
(***************************************************************************)
\* C13: a recordProgress request of a user who holds no enrollment in the
\* course the lesson belongs to is answered with the authorization-denied
\* status (403), through each of the handlers that write lesson progress.
C13_UnenrolledIsDenied ==
    \A w \in Workers :
        ( /\ resp[w].op \in {"UpdateLessonProgress", "LessonHandler.UpdateLessonProgress",
                            "CourseHandler.UpdateLessonProgress"}
          /\ <<resp[w].UserID, LessonCourse(resp[w].LessonID)>> \notin DOMAIN enrollments )
        => resp[w].status = 403

\* C14: recording lesson progress is all-or-nothing: no committed step
\* writes a lesson-progress row without the write of the enrollment
\* aggregate that goes with it.
C14_ProgressWriteWithAggregateWrite ==
    [][ lessonProgress' # lessonProgress => enrollments' # enrollments ]_vars

\* C17: the completed flag of a lesson-progress row is monotonic: no step of
\* any handler takes a completed row back to not completed.
C17_CompletedIsMonotonic ==
    [][ \A i \in DOMAIN lessonProgress :
            lessonProgress[i].Completed => lessonProgress'[i].Completed ]_vars

\* C20: the completion timestamp of a lesson-progress row is written only
\* when the row goes from not completed to completed (or is created
\* completed): a step that leaves a completed row completed leaves its
\* CompletedAt as it was.
C20_CompletedAtOnlyOnTransition ==
    [][ \A i \in DOMAIN lessonProgress :
            (lessonProgress[i].Completed /\ lessonProgress'[i].Completed)
                => lessonProgress'[i].CompletedAt = lessonProgress[i].CompletedAt ]_vars

(***************************************************************************)
(* The quiz view of StartQuizAttempt, under SpecQuiz.                      *)
(***************************************************************************)
\* C18: the quiz view answered by a successful StartQuizAttempt has an empty
\* CorrectAnswer in every question, and it is the view answered for every
\* quiz that differs from the stored one only in the correct answers of its
\* questions.
C18_ViewIndependentOfCorrectAnswers ==
    \A w \in Workers :
        (resp[w].op = "StartQuizAttempt" /\ resp[w].status = 200) =>
            LET view == resp[w].body[1].quiz
                quiz == LoadQuiz(view.ID)
            IN  /\ \A i \in DOMAIN view.Questions :
                        view.Questions[i].CorrectAnswer = << >>
                /\ \A ca \in [DOMAIN quiz.Questions -> CorrectAnswerTexts] :
                        sanitizeQuiz([quiz EXCEPT !.Questions =
                            [i \in DOMAIN quiz.Questions |->
                                [quiz.Questions[i] EXCEPT !.CorrectAnswer = ca[i]]]])
                            = view

\* C18 witness: a started attempt of a quiz with two questions, both with a
\* stored correct answer, and the view answered holds both questions.
C18_Witness ==
    \E w \in Workers :
        /\ resp[w].op = "StartQuizAttempt"
        /\ resp[w].status = 200
        /\ Len(resp[w].body[1].quiz.Questions) = 2
        /\ \A i \in DOMAIN LoadQuiz(resp[w].body[1].quiz.ID).Questions :
                LoadQuiz(resp[w].body[1].quiz.ID).Questions[i].CorrectAnswer # << >>
        /\ quizAttempts[resp[w].body[1].ID].QuizID = resp[w].body[1].quiz.ID

(***************************************************************************)
(* Completion of an attempt with no points to earn, under SpecQuizAll.     *)
(***************************************************************************)
\* C19: a completed attempt whose stored total points are 0 has score 0, a
\* defined number and not the result of a division by zero, and is passed
\* exactly when 0 >= the passing score of the quiz.
C19_ZeroTotalScoresZero ==
    \A a \in DOMAIN quizAttempts :
        (quizAttempts[a].IsCompleted /\ quizAttempts[a].TotalPoints = 0) =>
            /\ quizAttempts[a].Score.den > 0
            /\ quizAttempts[a].Score.num = 0
            /\ quizAttempts[a].IsPassed = (0 >= Quiz(quizAttempts[a].QuizID).PassingScore)

\* C21: after a successful progress write through PUT /progress/lesson or
\* PUT /lessons/:id/progress the stored TimeSpent of the enrollment in the
\* lesson's course is the sum of TimeSpent over the user's lesson-progress
\* rows of that course.  Under SpecProgress.
C21_EnrollmentTimeIsSumOfRows ==
    \A w \in Workers :
        ( /\ resp[w].op \in {"UpdateLessonProgress", "LessonHandler.UpdateLessonProgress"}
          /\ resp[w].status = 200
          /\ <<resp[w].UserID, LessonCourse(resp[w].LessonID)>> \in DOMAIN enrollments )
        => enrollments[<<resp[w].UserID, LessonCourse(resp[w].LessonID)>>].TimeSpent
               = SumTimeSpent(lessonProgress, LessonCourse(resp[w].LessonID), resp[w].UserID)

(***************************************************************************)
(* Grading rule (checkAnswer), under SpecCheckAnswer.                      *)
(***************************************************************************)
\* C22: checkAnswer is the reference grading rule for every question type
\* and every pair of strings.  With norm(s) the lower-case of s without its
\* leading and trailing whitespace: multiple choice and true/false are
\* correct iff norm(answer) = norm(correct); short answer iff one of
\* norm(answer), norm(correct) is a substring of the other; coding and any
\* other type iff norm(answer) = norm(correct).
C22_CheckAnswerIsReferenceRule ==
    \A w \in Workers :
        resp[w].op = "checkAnswer" =>
            LET lower(c) == IF c = "A" THEN "a" ELSE IF c = "B" THEN "b"
                            ELSE IF c = "C" THEN "c" ELSE c
                inner(s) == {i \in DOMAIN s : s[i] # " "}
                norm(s) == IF inner(s) = {} THEN << >>
                           ELSE LET first == CHOOSE i \in inner(s) : \A j \in inner(s) : i <= j
                                    last == CHOOSE i \in inner(s) : \A j \in inner(s) : j <= i
                                IN  [k \in 1..(last - first + 1) |-> lower(s[first + k - 1])]
                substring(sub, s) ==
                    \E off \in 0..(Len(s) - Len(sub)) :
                        \A k \in 1..Len(sub) : s[off + k] = sub[k]
                a == norm(resp[w].answer)
                c == norm(resp[w].question.CorrectAnswer)
                type == resp[w].question.QuestionType
            IN  resp[w].result =
                    IF type = "short_answer" THEN substring(a, c) \/ substring(c, a)
                    ELSE a = c

\* C22 witness: a short-answer question graded correct though the answer is
\* not the correct text: the answer, trimmed and lower-cased, is a proper
\* part of the correct text.
C22_Witness ==
    /\ resp[1].op = "checkAnswer"
    /\ resp[1].question.QuestionType = "short_answer"
    /\ resp[1].question.CorrectAnswer = <<"A", "b">>
    /\ resp[1].answer = <<" ", "a">>
    /\ resp[1].result

(***************************************************************************)
(* Points of an answer row (SubmitQuizAnswer), under SpecQuizConcurrent.   *)
(***************************************************************************)
\* C23: no partial credit: every stored answer row is marked correct exactly
\* when its stored text is correct under checkAnswer, and earns the full
\* points of its question when it is and 0 otherwise, after any sequence of
\* SubmitQuizAnswer calls, overwrites of a correct text by an incorrect one
\* included.
C23_NoPartialCredit ==
    \A i \in DOMAIN quizAnswers :
        LET question == QuizQuestion(quizAnswers[i].QuestionID)
        IN  /\ quizAnswers[i].IsCorrect = checkAnswer(question, quizAnswers[i].Answer)
            /\ quizAnswers[i].PointsEarned
                   = IF quizAnswers[i].IsCorrect THEN question.Points ELSE 0

\* C23 witness: one worker was answered with the row of a correct text, the
\* other was answered later with the same row overwritten by an incorrect
\* text, and that is the row now stored, with no points.
C23_Witness ==
    \E w, v \in Workers, i \in DOMAIN quizAnswers :
        /\ resp[v].op = "SubmitQuizAnswer" /\ resp[v].status = 200
        /\ resp[w].op = "SubmitQuizAnswer" /\ resp[w].status = 200
        /\ resp[v].body[1].IsCorrect
        /\ resp[v].body[1].PointsEarned > 0
        /\ resp[v].body[1].AttemptID = quizAnswers[i].AttemptID
        /\ resp[v].body[1].QuestionID = quizAnswers[i].QuestionID
        /\ resp[w].body[1] = quizAnswers[i]
        /\ ~quizAnswers[i].IsCorrect
        /\ quizAnswers[i].PointsEarned = 0
        /\ Cardinality({j \in AnswersOf(quizAnswers[i].AttemptID) :
                            quizAnswers[j].QuestionID = quizAnswers[i].QuestionID}) = 1

(***************************************************************************)
(* Creation of an attempt (StartQuizAttempt), under SpecQuizAll.           *)
(***************************************************************************)
\* C24: an attempt row exists only for a published quiz and a user enrolled
\* in the quiz's course; a rejected StartQuizAttempt creates no row; a row is
\* created not completed, with TotalPoints the sum of the points of the
\* quiz's questions, and no step changes the TotalPoints of a row.
C24_StartCreatesOnlyWhenAllowed ==
    [][ /\ \A a \in DOMAIN quizAttempts' :
               /\ Quiz(quizAttempts'[a].QuizID).IsPublished
               /\ <<quizAttempts'[a].UserID, Quiz(quizAttempts'[a].QuizID).CourseID>>
                      \in DOMAIN enrollments
        /\ \A a \in DOMAIN quizAttempts' \ DOMAIN quizAttempts :
               /\ ~quizAttempts'[a].IsCompleted
               /\ quizAttempts'[a].TotalPoints = TotalPoints(quizAttempts'[a].QuizID)
        /\ \A a \in DOMAIN quizAttempts :
               /\ a \in DOMAIN quizAttempts'
               /\ quizAttempts'[a].TotalPoints = quizAttempts[a].TotalPoints
        /\ \A w \in Workers :
               (resp'[w].op = "StartQuizAttempt" /\ resp'[w].status # 200)
                   => quizAttempts' = quizAttempts ]_vars

\* C24 witness: an attempt of the 15-point quiz was created and completed
\* with its TotalPoints kept, and the last request, for the quiz that is not
\* published, was rejected.
C24_Witness ==
    /\ resp[1].op = "StartQuizAttempt"
    /\ resp[1].status = 403
    /\ resp[1].error = "Quiz is not available"
    /\ \E a \in DOMAIN quizAttempts :
           /\ quizAttempts[a].IsCompleted
           /\ quizAttempts[a].TotalPoints = 15

(***************************************************************************)
(* Verification-code collisions (createCertificate), under SpecIssued.     *)
(***************************************************************************)
\* C25: a collision of the generated verification code with the code of an
\* existing certificate never makes GenerateCertificate fail: a request that
\* is answered 500 met a certificate of its own enrollment.
C25_CodeCollisionIsNotFatal ==
    \A w \in Workers :
        (resp[w].op = "GenerateCertificate" /\ resp[w].status = 500) =>
            \E certificate \in certificates :
                certificate.EnrollmentID = <<resp[w].UserID, resp[w].CourseID>>

(***************************************************************************)
(* Certificate row and enrollment link, under SpecIssueFaulty.             *)
(***************************************************************************)
\* C26: in every state GenerateCertificate leaves behind (no call of it is
\* running), whether its calls succeeded or failed, a certificate row exists
\* for an enrollment exactly when the enrollment's certificate
\* reference and issuance time are set, and the reference is the id of that
\* certificate.
C26_CertificateIffLinked ==
    NoneAt({"gc_create", "gc_save"}) =>
        \A e \in DOMAIN enrollments :
            LET rows == {certificate \in certificates : certificate.EnrollmentID = e}
            IN  /\ (rows # {}) = (enrollments[e].CertificateID # Null)
                /\ (rows # {}) = (enrollments[e].CertificateIssuedAt # Null)
                /\ \A certificate \in rows :
                       enrollments[e].CertificateID = Some(certificate.ID)

(***************************************************************************)
(* One lesson-progress row per (user, lesson), under SpecProgressRace.     *)
(***************************************************************************)
\* C27: at most one lesson-progress row exists per (user, lesson) in every
\* reachable state, also when two first writes for the same (user, lesson)
\* both run their lookup before either inserts.
C27_OneRowPerUserLesson ==
    \A i, j \in DOMAIN lessonProgress :
        ( /\ lessonProgress[i].UserID = lessonProgress[j].UserID
          /\ lessonProgress[i].LessonID = lessonProgress[j].LessonID )
        => i = j

\* C28: in every state reached through the handlers that write lesson
\* progress, an enrollment whose stored Progress is 100 or more has its
\* CompletedAt set.  Under SpecProgress.
C28_FullProgressHasCompletedAt ==
    \A e \in DOMAIN enrollments :
        FracGE(enrollments[e].Progress, 100) => enrollments[e].CompletedAt # Null

(***************************************************************************)
(* The enrollment write of GenerateCertificate, under                      *)
(* SpecIssueProgressRace.                                                  *)
(***************************************************************************)
\* C29: the enrollment write of GenerateCertificate changes the certificate
\* reference and the issuance time only: Progress, TotalLessons,
\* CompletedLessons, TimeSpent, CompletedAt and LastActivityAt of every
\* enrollment are after the write what they were before it, also when an
\* UpdateLessonProgress transaction committed after GenerateCertificate read
\* the enrollment.
C29_IssueKeepsAggregate ==
    [][ (\E w \in Workers : proc[w].pc = "gc_save" /\ proc'[w].pc = "idle")
            => \A e \in DOMAIN enrollments :
                   /\ enrollments'[e].Progress = enrollments[e].Progress
                   /\ enrollments'[e].TotalLessons = enrollments[e].TotalLessons
                   /\ enrollments'[e].CompletedLessons = enrollments[e].CompletedLessons
                   /\ enrollments'[e].TimeSpent = enrollments[e].TimeSpent
                   /\ enrollments'[e].CompletedAt = enrollments[e].CompletedAt
                   /\ enrollments'[e].LastActivityAt = enrollments[e].LastActivityAt ]_vars

(***************************************************************************)
(* Bounds of a completed attempt, under SpecQuizConcurrentLong.            *)
(***************************************************************************)
\* C30: for every completed attempt 0 <= EarnedPoints <= TotalPoints and
\* hence 0 <= Score <= 100, after any interleaving of StartQuizAttempt,
\* SubmitQuizAnswer and CompleteQuizAttempt.
C30_ScoreWithinBounds ==
    \A a \in DOMAIN quizAttempts :
        quizAttempts[a].IsCompleted =>
            /\ 0 <= quizAttempts[a].EarnedPoints
            /\ quizAttempts[a].EarnedPoints <= quizAttempts[a].TotalPoints
            /\ quizAttempts[a].Score.den > 0
            /\ 0 <= quizAttempts[a].Score.num
            /\ quizAttempts[a].Score.num <= 100 * quizAttempts[a].Score.den

====
